---- MODULE Spec2Model ----
(***************************************************************************)
(* The onepassword module of replicatedhq/daggerverse                      *)
(* (src/onepassword/main.go): FindSecret, FindSecretRotationSpecs and      *)
(* PutSecret, with the resolvers findVault, findItem and findSectionID.    *)
(*                                                                         *)
(* The provider (the 1Password SDK client) is the environment: it holds a  *)
(* sequence of vaults, one sequence of item overviews per vault and the    *)
(* sections and fields of an item.  Each of its calls either answers from  *)
(* that data or fails with a provider error.                               *)
(***************************************************************************)
EXTENDS Naturals, Sequences, FiniteSets

VARIABLES
    vaults,        \* provider: the sequence Vaults.ListAll yields
    items,         \* provider: vault ID -> the sequence Items.ListAll yields
    content,       \* provider: sections and fields Items.Get answers with
    endless,       \* provider: the iterators never signal ErrorIteratorDone
    cancelled,     \* the caller's ctx has been cancelled
    pc,            \* position of the running operation
    op,            \* the exported operation that was called
    args,          \* its arguments
    iter,          \* vaultsIterator / itemsIterator: [seq, pos]
    vault,         \* findVault's result
    itemOverview,  \* findItem's result
    item,          \* what client.Items.Get returned
    sectionID,     \* findSectionID's result
    rotationInfo,  \* the SecretRotationSpecs record of the scan
    failedAt,      \* the provider call that failed in this operation, or "none"
    createCalls,   \* the ItemCreateParams of this operation's Items.Create calls
    result,        \* what the operation returned to its caller
    prev           \* outcome of the preceding identical call, or NoPrev

vars == <<vaults, items, content, endless, cancelled, pc, op, args, iter, vault,
          itemOverview, item, sectionID, rotationInfo, failedAt, createCalls,
          result, prev>>

provider == <<vaults, items, content, endless>>

----------------------------------------------------------------------------
(* Bounds of the model. *)
MaxVaults == 2
MaxItems == 2
MaxSections == 2
MaxFields == 4

----------------------------------------------------------------------------
(* Sentinel errors, main.go:15-21, and the provider's own errors. *)
ErrVaultNotFound == "vault not found"
ErrItemNotFound == "item not found"
ErrFieldNotFound == "field not found"
ErrSectionNotFound == "section not found"
ErrRotationSpecNotFound == "rotation specs not found"
ProviderError == "provider error"
AuthError == "auth error"
CredentialError == "credential error"
NilDereference == "nil pointer dereference"

(* What an exported operation hands back: a secret (name, plaintext), a   *)
(* plain success, an error value, or a panic that aborts the operation.   *)
NoResult == [kind |-> "none", name |-> "", val |-> <<>>]
Secret(name, plaintext) == [kind |-> "secret", name |-> name, val |-> plaintext]
Failure(err) == [kind |-> "err", name |-> err, val |-> <<>>]
Panic(err) == [kind |-> "panic", name |-> err, val |-> <<>>]
Success == [kind |-> "ok", name |-> "", val |-> <<>>]

----------------------------------------------------------------------------
(* Provider data. *)
SeqsUpTo(S, n) == UNION {[1..k -> S] : k \in 0..n}
Range(s) == {s[i] : i \in 1..Len(s)}

VaultTitles == {"prod", "Prod"}
ItemTitles == {"db-creds", "DB-Creds"}
SectionTitles == {"rotation", "Rotation"}
VaultIDs == <<"v1", "v2", "v3", "v4">>
ItemIDs == <<"i1", "i2", "i3", "i4">>
SectionIDs == <<"s1", "s2", "s3", "s4">>

VaultLists ==
    {[i \in 1..Len(t) |-> [ID |-> VaultIDs[i], Title |-> t[i]]] :
        t \in SeqsUpTo(VaultTitles, MaxVaults)}
ItemLists ==
    {[i \in 1..Len(t) |-> [ID |-> ItemIDs[i], Title |-> t[i]]] :
        t \in SeqsUpTo(ItemTitles, MaxItems)}
SectionLists ==
    {[i \in 1..Len(t) |-> [ID |-> SectionIDs[i], Title |-> t[i]]] :
        t \in SeqsUpTo(SectionTitles, MaxSections)}

(* onepassword.ItemField: SectionID is a *string; hasSection = FALSE is nil. *)
Field(title, value, hasSection, sid) ==
    [Title |-> title, Value |-> value, hasSection |-> hasSection, SectionID |-> sid]

(* The zero values Go gives a declared but unset struct. *)
ZeroVault == [ID |-> "", Title |-> ""]
ZeroItemOverview == [ID |-> "", Title |-> ""]
ZeroItem == [Sections |-> <<>>, Fields |-> <<>>]
ZeroSpecs == [ExpiresOn |-> "", CreatedOn |-> "", RotationFunction |-> ""]
NoIter == [seq |-> <<>>, pos |-> 1]
NoPrev == [set |-> FALSE, result |-> NoResult, failedAt |-> "none"]

----------------------------------------------------------------------------
(* The title comparisons: exact, case-sensitive string equality. *)
Lower(t) ==
    IF t = "Prod" THEN "prod"
    ELSE IF t = "DB-Creds" THEN "db-creds"
    ELSE IF t = "Rotation" THEN "rotation"
    ELSE t

(* A comparison that folds case, as strings.EqualFold would. *)
vaultTitleEqualFold(v, vaultName) == Lower(v.Title) = Lower(vaultName)

vaultTitleMatches(v, vaultName) == v.Title = vaultName
itemTitleMatches(i, itemName) == i.Title = itemName
sectionTitleMatches(s, sectionName) == s.Title = sectionName
fieldTitleMatches(f, fieldName) == f.Title = fieldName

(* findSectionID, main.go:286-297.  err = "" is Go's nil error. *)
RECURSIVE sectionScan(_, _, _)
sectionScan(sections, sectionName, i) ==
    IF i > Len(sections)
    THEN [id |-> "", err |-> ErrSectionNotFound]
    ELSE IF sectionTitleMatches(sections[i], sectionName)
         THEN [id |-> sections[i].ID, err |-> ""]
         ELSE sectionScan(sections, sectionName, i + 1)

(* findSectionID with its early return for the empty title left out. *)
findSectionIDNoSentinel(it, sectionName) == sectionScan(it.Sections, sectionName, 1)

findSectionID(it, sectionName) ==
    IF sectionName = ""
    THEN [id |-> "", err |-> ""]
    ELSE sectionScan(it.Sections, sectionName, 1)

(* The membership test with its section == "" alternative left out. *)
isCandidateScopedOnly(section, field, sid) ==
    field.hasSection /\ field.SectionID = sid

(* The field loop of FindSecret, main.go:85-93. *)
isCandidate(section, field, sid) ==
    section = "" \/ (field.hasSection /\ field.SectionID = sid)

RECURSIVE fieldScan(_, _, _, _, _)
fieldScan(fields, section, sid, fieldName, i) ==
    IF i > Len(fields)
    THEN Failure(ErrFieldNotFound)
    ELSE IF isCandidate(section, fields[i], sid)
            /\ fieldTitleMatches(fields[i], fieldName)
         THEN Secret(fieldName, <<fields[i].Value>>)
         ELSE fieldScan(fields, section, sid, fieldName, i + 1)

(* The switch keeping the first value seen for a title, as FindSecret's   *)
(* first-match rule would.                                                *)
setSpecFirstWins(info, field) ==
    IF field.Title = "expires-on" /\ info.ExpiresOn = ""
    THEN [info EXCEPT !.ExpiresOn = field.Value]
    ELSE IF field.Title = "created-on" /\ info.CreatedOn = ""
    THEN [info EXCEPT !.CreatedOn = field.Value]
    ELSE IF field.Title = "rotationFunction" /\ info.RotationFunction = ""
    THEN [info EXCEPT !.RotationFunction = field.Value]
    ELSE info

(* The field loop of FindSecretRotationSpecs, main.go:148-163.  The       *)
(* dereference *field.SectionID of a nil pointer panics.                  *)
setSpec(info, field) ==
    IF field.Title = "expires-on" THEN [info EXCEPT !.ExpiresOn = field.Value]
    ELSE IF field.Title = "created-on" THEN [info EXCEPT !.CreatedOn = field.Value]
    ELSE IF field.Title = "rotationFunction"
         THEN [info EXCEPT !.RotationFunction = field.Value]
    ELSE info

allFound(info) ==
    info.ExpiresOn # "" /\ info.CreatedOn # "" /\ info.RotationFunction # ""

(* The loop with the nil check of FindSecret's membership test added.     *)
RECURSIVE rotationScanGuarded(_, _, _, _)
rotationScanGuarded(info, fields, sid, i) ==
    IF i > Len(fields)
    THEN [info |-> info, fault |-> FALSE]
    ELSE LET next == IF fields[i].hasSection /\ fields[i].SectionID = sid
                     THEN setSpec(info, fields[i])
                     ELSE info
         IN  IF allFound(next)
             THEN [info |-> next, fault |-> FALSE]
             ELSE rotationScanGuarded(next, fields, sid, i + 1)

RECURSIVE rotationScan(_, _, _, _)
rotationScan(info, fields, sid, i) ==
    IF i > Len(fields)
    THEN [info |-> info, fault |-> FALSE]
    ELSE IF ~fields[i].hasSection
         THEN [info |-> info, fault |-> TRUE]
         ELSE LET next == IF fields[i].SectionID = sid
                          THEN setSpec(info, fields[i])
                          ELSE info
              IN  IF allFound(next)
                  THEN [info |-> next, fault |-> FALSE]
                  ELSE rotationScan(next, fields, sid, i + 1)

(* The record left as the preceding call filled it, as a package-level   *)
(* variable would be.                                                     *)
staleRotationInfo == rotationInfo

(* rotationInfo := SecretRotationSpecs{}, main.go:145. *)
newRotationInfo == ZeroSpecs

(* json.Marshal of SecretRotationSpecs, main.go:171: the exported fields  *)
(* in declaration order (main.go:30-32), as the token sequence of the     *)
(* JSON object.                                                           *)
Marshal(info) ==
    <<"{", "ExpiresOn", ":", info.ExpiresOn, ",",
           "CreatedOn", ":", info.CreatedOn, ",",
           "RotationFunction", ":", info.RotationFunction, "}">>

(* onepassword.ItemCreateParams{Title: itemName}, main.go:222-224: every  *)
(* other member keeps its zero value.                                     *)
createParams(v, itemName) ==
    [VaultID |-> "", Title |-> itemName, Fields |-> <<>>]

----------------------------------------------------------------------------
(* The arguments the exported operations are called with. *)
VaultNames == {"prod"}
ItemNames == {"db-creds"}
FieldNames == {"expires-on", "password"}
SectionNames == {"", "rotation"}
SecretValues == {"hunter2"}

Args(v, i, f, s, x) ==
    [vaultName |-> v, itemName |-> i, fieldName |-> f, section |-> s, value |-> x]
NoArgs == Args("", "", "", "", "")

FindSecretArgs ==
    {Args(v, i, f, s, "") :
        v \in VaultNames, i \in ItemNames, f \in FieldNames, s \in SectionNames}
RotationArgs ==
    {Args(v, i, "", s, "") : v \in VaultNames, i \in ItemNames, s \in SectionNames}
PutSecretArgs ==
    {Args(v, i, f, "", x) :
        v \in VaultNames, i \in ItemNames, f \in {"password"}, x \in SecretValues}

Calls ==
    ({"FindSecret"} \X FindSecretArgs)
        \cup ({"FindSecretRotationSpecs"} \X RotationArgs)
        \cup ({"PutSecret"} \X PutSecretArgs)

----------------------------------------------------------------------------
(* The fields items are built from. *)
FieldPool ==
    { Field("expires-on", "2025-01-01", TRUE, "s1"),
      Field("expires-on", "2026-01-01", TRUE, "s1"),
      Field("expires-on", "", TRUE, "s1"),
      Field("expires-on", "2027-01-01", TRUE, "s2"),
      Field("created-on", "2024-01-01", TRUE, "s1"),
      Field("rotationFunction", "rotateDbPassword", TRUE, "s1"),
      Field("password", "xyz", FALSE, "") }

OneVault == <<[ID |-> "v1", Title |-> "prod"]>>
OneItem == <<[ID |-> "i1", Title |-> "db-creds"]>>
TwoSections ==
    <<[ID |-> "s1", Title |-> "rotation"], [ID |-> "s2", Title |-> "Rotation"]>>
PlainItem ==
    [Sections |-> <<>>, Fields |-> <<Field("password", "xyz", FALSE, "")>>]

Idle ==
    /\ cancelled = FALSE
    /\ pc = "idle"
    /\ op = "none"
    /\ args = NoArgs
    /\ iter = NoIter
    /\ vault = ZeroVault
    /\ itemOverview = ZeroItemOverview
    /\ item = ZeroItem
    /\ sectionID = ""
    /\ rotationInfo = ZeroSpecs
    /\ failedAt = "none"
    /\ createCalls = <<>>
    /\ result = NoResult
    /\ prev = NoPrev

(* Any vaults and item lists; one plain item. *)
InitResolve ==
    /\ vaults \in VaultLists
    /\ items \in [{v.ID : v \in Range(vaults)} -> ItemLists]
    /\ content = PlainItem
    /\ endless = FALSE
    /\ Idle

(* One vault holding one item; any sections, up to two fields. *)
InitSections ==
    /\ vaults = OneVault
    /\ items = [i \in {"v1"} |-> OneItem]
    /\ content \in [Sections : SectionLists, Fields : SeqsUpTo(FieldPool, 2)]
    /\ endless = FALSE
    /\ Idle

(* The fields of the pool that a rotation section is made of, and the     *)
(* item-level password.                                                   *)
RotationPool ==
    {f \in FieldPool : f.Value # "" /\ (f.hasSection => f.SectionID = "s1")}

(* One vault holding one item with two sections; any fields. *)
InitFields ==
    /\ vaults = OneVault
    /\ items = [i \in {"v1"} |-> OneItem]
    /\ content \in [Sections : {TwoSections}, Fields : SeqsUpTo(FieldPool, MaxFields)]
    /\ endless = FALSE
    /\ Idle

Init == InitFields \/ InitSections \/ InitResolve

----------------------------------------------------------------------------
(* An exported operation is called: main.go:36, 97, 182. *)
Call ==
    /\ pc = "idle"
    /\ \E c \in Calls :
          /\ op' = c[1]
          /\ args' = c[2]
    /\ pc' = "auth"
    /\ UNCHANGED <<provider, cancelled, iter, vault, itemOverview, item, sectionID,
                   rotationInfo, failedAt, createCalls, result, prev>>

(* The operation returns r to its caller. *)
Return(r) ==
    /\ result' = r
    /\ pc' = "done"

(* serviceAccount.Plaintext and onepassword.NewClient, main.go:55-66,     *)
(* 112-122, 200-211: either error panics.                                 *)
Authenticate ==
    /\ pc = "auth"
    /\ \/ /\ failedAt' = "credential"
          /\ Return(Panic(CredentialError))
       \/ /\ failedAt' = "auth"
          /\ Return(Panic(AuthError))
       \/ /\ pc' = "listVaults"
          /\ UNCHANGED <<failedAt, result>>
    /\ UNCHANGED <<provider, cancelled, op, args, iter, vault, itemOverview, item,
                   sectionID, rotationInfo, createCalls, prev>>

(* client.Vaults.ListAll, main.go:242-245. *)
ListVaults ==
    /\ pc = "listVaults"
    /\ \/ /\ failedAt' = "listVaults"
          /\ Return(Failure(ProviderError))
          /\ UNCHANGED iter
       \/ /\ iter' = [seq |-> vaults, pos |-> 1]
          /\ pc' = "vaultNext"
          /\ UNCHANGED <<failedAt, result>>
    /\ UNCHANGED <<provider, cancelled, op, args, vault, itemOverview, item,
                   sectionID, rotationInfo, createCalls, prev>>

(* Iterator.Next: the element at the position, or ErrorIteratorDone past  *)
(* the end; an iterator that never signals completion starts over.        *)
iterDone(it) == it.pos > Len(it.seq) /\ ~(endless /\ Len(it.seq) > 0)
iterAt(it) == IF it.pos > Len(it.seq) THEN 1 ELSE it.pos
iterAdvance(it) == [it EXCEPT !.pos = iterAt(it) + 1]

(* One turn of findVault's loop, main.go:247-260. *)
VaultNext ==
    /\ pc = "vaultNext"
    /\ \/ /\ failedAt' = "vaultNext"
          /\ Return(Failure(ProviderError))
          /\ UNCHANGED <<iter, vault>>
       \/ /\ iterDone(iter)
          /\ Return(Failure(ErrVaultNotFound))
          /\ UNCHANGED <<iter, vault, failedAt>>
       \/ /\ ~iterDone(iter)
          /\ iter' = iterAdvance(iter)
          /\ IF vaultTitleMatches(iter.seq[iterAt(iter)], args.vaultName)
             THEN /\ vault' = iter.seq[iterAt(iter)]
                  /\ pc' = "listItems"
             ELSE UNCHANGED <<vault, pc>>
          /\ UNCHANGED <<failedAt, result>>
    /\ UNCHANGED <<provider, cancelled, op, args, itemOverview, item, sectionID,
                   rotationInfo, createCalls, prev>>

(* client.Items.ListAll(ctx, vaultID), main.go:264-267. *)
ListItems ==
    /\ pc = "listItems"
    /\ \/ /\ failedAt' = "listItems"
          /\ Return(Failure(ProviderError))
          /\ UNCHANGED iter
       \/ /\ iter' = [seq |-> items[vault.ID], pos |-> 1]
          /\ pc' = "itemNext"
          /\ UNCHANGED <<failedAt, result>>
    /\ UNCHANGED <<provider, cancelled, op, args, vault, itemOverview, item,
                   sectionID, rotationInfo, createCalls, prev>>

(* One turn of findItem's loop, main.go:269-282, and what its caller does *)
(* with the outcome: main.go:73-76, 131-134, 219-234.                     *)
ItemNext ==
    /\ pc = "itemNext"
    /\ \/ /\ failedAt' = "itemNext"
          /\ Return(Failure(ProviderError))
          /\ UNCHANGED <<iter, itemOverview>>
       \/ /\ iterDone(iter)
          /\ IF op = "PutSecret"
             THEN pc' = "create" /\ UNCHANGED result
             ELSE Return(Failure(ErrItemNotFound))
          /\ UNCHANGED <<iter, itemOverview, failedAt>>
       \/ /\ ~iterDone(iter)
          /\ iter' = iterAdvance(iter)
          /\ IF itemTitleMatches(iter.seq[iterAt(iter)], args.itemName)
             THEN /\ itemOverview' = iter.seq[iterAt(iter)]
                  /\ pc' = IF op = "PutSecret" THEN "print" ELSE "getItem"
             ELSE UNCHANGED <<itemOverview, pc>>
          /\ UNCHANGED <<failedAt, result>>
    /\ UNCHANGED <<provider, cancelled, op, args, vault, item, sectionID,
                   rotationInfo, createCalls, prev>>

(* client.Items.Get, main.go:78 and 136: err is assigned and never read;  *)
(* on failure the SDK hands back the zero Item.                           *)
GetItem ==
    /\ pc = "getItem"
    /\ \/ /\ item' = content
          /\ UNCHANGED failedAt
       \/ /\ item' = ZeroItem
          /\ failedAt' = "getItem"
    /\ pc' = "findSection"
    /\ UNCHANGED <<provider, cancelled, op, args, iter, vault, itemOverview,
                   sectionID, rotationInfo, createCalls, result, prev>>

(* sectionID, err := findSectionID(item, section), main.go:80-83, 140-143. *)
FindSection ==
    /\ pc = "findSection"
    /\ LET r == findSectionID(item, args.section)
       IN  IF r.err # ""
           THEN Return(Failure(r.err)) /\ UNCHANGED sectionID
           ELSE /\ sectionID' = r.id
                /\ pc' = IF op = "FindSecret" THEN "scanFields" ELSE "scanRotation"
                /\ UNCHANGED result
    /\ UNCHANGED <<provider, cancelled, op, args, iter, vault, itemOverview, item,
                   rotationInfo, failedAt, createCalls, prev>>

(* FindSecret's field loop and return, main.go:85-93. *)
ScanFields ==
    /\ pc = "scanFields"
    /\ Return(fieldScan(item.Fields, args.section, sectionID, args.fieldName, 1))
    /\ UNCHANGED <<provider, cancelled, op, args, iter, vault, itemOverview, item,
                   sectionID, rotationInfo, failedAt, createCalls, prev>>

(* FindSecretRotationSpecs from the record's declaration to its return,   *)
(* main.go:145-177.                                                       *)
ScanRotation ==
    /\ pc = "scanRotation"
    /\ LET r == rotationScan(newRotationInfo, item.Fields, sectionID, 1)
       IN  /\ rotationInfo' = r.info
           /\ Return(IF r.fault THEN Panic(NilDereference)
                     ELSE IF ~allFound(r.info) THEN Failure(ErrRotationSpecNotFound)
                     ELSE Secret("rotationSpecs", Marshal(r.info)))
    /\ UNCHANGED <<provider, cancelled, op, args, iter, vault, itemOverview, item,
                   sectionID, failedAt, createCalls, prev>>

(* PutSecret's client.Items.Create, main.go:222-228. *)
CreateItem ==
    /\ pc = "create"
    /\ createCalls' = Append(createCalls, createParams(vault, args.itemName))
    /\ \/ /\ failedAt' = "create"
          /\ Return(Failure(ProviderError))
       \/ /\ pc' = "print"
          /\ UNCHANGED <<failedAt, result>>
    /\ UNCHANGED <<provider, cancelled, op, args, iter, vault, itemOverview, item,
                   sectionID, rotationInfo, prev>>

(* PutSecret prints the overview and returns nil, main.go:236-238. *)
PrintOverview ==
    /\ pc = "print"
    /\ Return(Success)
    /\ UNCHANGED <<provider, cancelled, op, args, iter, vault, itemOverview, item,
                   sectionID, rotationInfo, failedAt, createCalls, prev>>

Next ==
    \/ Call
    \/ Authenticate
    \/ ListVaults
    \/ VaultNext
    \/ ListItems
    \/ ItemNext
    \/ GetItem
    \/ FindSection
    \/ ScanFields
    \/ ScanRotation
    \/ CreateItem
    \/ PrintOverview

Spec == Init /\ [][Next]_vars

----------------------------------------------------------------------------
(* FindSecretRotationSpecs has returned and is called again with the same *)
(* arguments, against the same provider data.  The locals of the new call *)
(* hold nothing until the code assigns them.                              *)
Repeat ==
    /\ pc = "done"
    /\ op = "FindSecretRotationSpecs"
    /\ prev' = [set |-> TRUE, result |-> result, failedAt |-> failedAt]
    /\ pc' = "auth"
    /\ iter' = NoIter
    /\ vault' = ZeroVault
    /\ itemOverview' = ZeroItemOverview
    /\ item' = ZeroItem
    /\ sectionID' = ""
    /\ failedAt' = "none"
    /\ createCalls' = <<>>
    /\ result' = NoResult
    /\ UNCHANGED <<provider, cancelled, op, args, rotationInfo>>

NextRepeat == Next \/ Repeat

(* One vault holding one item, or none, with two sections and rotation    *)
(* fields.                                                                *)
InitRepeat ==
    /\ vaults = OneVault
    /\ items \in [{"v1"} -> {<<>>, OneItem}]
    /\ content \in [Sections : {TwoSections}, Fields : SeqsUpTo(RotationPool, MaxFields)]
    /\ endless = FALSE
    /\ Idle

SpecRepeat == InitRepeat /\ [][NextRepeat]_vars

(* The caller cancels ctx while the operation runs. *)
Cancel ==
    /\ pc \notin {"idle", "done"}
    /\ ~cancelled
    /\ cancelled' = TRUE
    /\ UNCHANGED <<provider, pc, op, args, iter, vault, itemOverview, item,
                   sectionID, rotationInfo, failedAt, createCalls, result, prev>>

(* Any vaults and item lists, from iterators that may never signal        *)
(* completion.                                                            *)
InitLive ==
    /\ vaults \in VaultLists
    /\ items \in [{v.ID : v \in Range(vaults)} -> ItemLists]
    /\ content = PlainItem
    /\ endless \in BOOLEAN
    /\ Idle

NextLive == Next \/ Cancel

(* The operation is a running goroutine: it takes its next step.          *)
LiveSpec == InitLive /\ [][NextLive]_vars /\ WF_vars(Next)

----------------------------------------------------------------------------
(* What the claims are stated with: the index of the first element of a   *)
(* sequence with a given title (0 when there is none), and how far the    *)
(* running operation has come.                                            *)
FirstWithTitle(seq, t) ==
    LET M == {i \in 1..Len(seq) : seq[i].Title = t}
    IN  IF M = {} THEN 0 ELSE CHOOSE i \in M : \A j \in M : i <= j

Done == pc = "done"
VaultResolved ==
    pc \in {"listItems", "itemNext", "getItem", "findSection", "scanFields",
            "scanRotation", "create", "print"}
        \/ (Done /\ vault # ZeroVault)
ItemResolved ==
    pc \in {"getItem", "findSection", "scanFields", "scanRotation"}
        \/ (pc = "print" /\ createCalls = <<>>)
        \/ (Done /\ itemOverview # ZeroItemOverview)
VaultLookupFailed == failedAt \in {"credential", "auth", "listVaults", "vaultNext"}
ItemLookupFailed == failedAt \in {"listItems", "itemNext"}

(* C1: findVault returns the first vault, in iteration order, whose title *)
(* equals the target exactly, and ErrVaultNotFound when no vault has that *)
(* title; findItem does the same over the resolved vault's items with     *)
(* ErrItemNotFound.  Neither returns an element with another title, nor a *)
(* later match when an earlier one exists.                                *)
C1_FirstExactMatch ==
    LET m == FirstWithTitle(vaults, args.vaultName)
    IN  /\ VaultResolved => m # 0 /\ vault = vaults[m]
        /\ result = Failure(ErrVaultNotFound) => m = 0
        /\ Done /\ ~VaultLookupFailed /\ m = 0 => result = Failure(ErrVaultNotFound)
        /\ VaultResolved =>
             LET n == FirstWithTitle(items[vault.ID], args.itemName)
             IN  /\ ItemResolved => n # 0 /\ itemOverview = items[vault.ID][n]
                 /\ (result = Failure(ErrItemNotFound) \/ pc = "create") => n = 0
                 /\ Done /\ ~ItemLookupFailed /\ n = 0 /\ op # "PutSecret"
                        => result = Failure(ErrItemNotFound)

(* C1 witness: the second vault and its second item were returned, each   *)
(* after an element whose title differs only in case.                     *)
C1_Witness ==
    /\ pc = "getItem"
    /\ Len(vaults) = 2 /\ vaults[1].Title = "Prod" /\ vault = vaults[2]
    /\ Len(items["v2"]) = 2 /\ items["v2"][1].Title = "DB-Creds"
    /\ itemOverview = items["v2"][2]

----------------------------------------------------------------------------
(* The provider answered every call of the operation, and both resolvers  *)
(* found their element: the operation went on with the provider's item.   *)
ItemLoaded == Done /\ failedAt = "none" /\ vault # ZeroVault /\ itemOverview # ZeroItemOverview

(* The fields of an item that FindSecret may return under a section title *)
(* s resolved to id, and those among them titled f.                       *)
Candidates(it, s, id) ==
    {i \in 1..Len(it.Fields) :
        s = "" \/ (it.Fields[i].hasSection /\ it.Fields[i].SectionID = id)}
Hits(it, s, id, f) == {i \in Candidates(it, s, id) : it.Fields[i].Title = f}
Least(S) == CHOOSE i \in S : \A j \in S : i <= j

(* C2: in FindSecret, with an empty section title every field of the item *)
(* is a candidate, sectioned or not; with a section title that resolves   *)
(* to id only the fields whose section reference is present and equal to  *)
(* id are.  The result is the value of the first candidate, in field      *)
(* order, titled fieldName, and ErrFieldNotFound when there is none.      *)
C2_FieldCandidates ==
    LET s == args.section
        k == FirstWithTitle(content.Sections, s)
        id == IF s = "" THEN "" ELSE content.Sections[k].ID
    IN  (op = "FindSecret" /\ ItemLoaded /\ (s = "" \/ k # 0)) =>
            LET H == Hits(content, s, id, args.fieldName)
            IN  result = IF H = {}
                         THEN Failure(ErrFieldNotFound)
                         ELSE Secret(args.fieldName, <<content.Fields[Least(H)].Value>>)

(* C2 witness: an unscoped FindSecret returned the value of a field that  *)
(* belongs to a section, the first of two fields with the title.          *)
C2_WitnessUnscoped ==
    /\ op = "FindSecret" /\ ItemLoaded /\ args.section = ""
    /\ Len(content.Fields) >= 3
    /\ content.Fields[1].Title # args.fieldName
    /\ content.Fields[2].Title = args.fieldName /\ content.Fields[2].hasSection
    /\ content.Fields[3].Title = args.fieldName
    /\ content.Fields[3].Value # content.Fields[2].Value
    /\ result = Secret(args.fieldName, <<content.Fields[2].Value>>)

(* A scoped FindSecret passed over a field of another section with the    *)
(* title and returned the value of the later field of the section.        *)
C2_WitnessScoped ==
    /\ op = "FindSecret" /\ ItemLoaded /\ args.section = "rotation"
    /\ Len(content.Fields) >= 2
    /\ content.Fields[1].Title = args.fieldName /\ content.Fields[1].SectionID = "s2"
    /\ content.Fields[2].Title = args.fieldName /\ content.Fields[2].SectionID = "s1"
    /\ result = Secret(args.fieldName, <<content.Fields[2].Value>>)

(* C3: findSectionID returns the empty identifier and no error for the    *)
(* empty title; otherwise the identifier of the first section of the item *)
(* with exactly that title, and ErrSectionNotFound when there is none, so *)
(* that FindSecret fails with ErrSectionNotFound on a section title that  *)
(* matches no section, whatever fields the item has.                      *)
C3_SectionResolution ==
    LET s == args.section
        k == FirstWithTitle(item.Sections, s)
    IN  /\ pc \in {"scanFields", "scanRotation"} =>
              IF s = "" THEN sectionID = ""
              ELSE k # 0 /\ sectionID = item.Sections[k].ID
        /\ result = Failure(ErrSectionNotFound) => s # "" /\ k = 0
        /\ (Done /\ op # "PutSecret" /\ failedAt \in {"none", "getItem"}
                 /\ vault # ZeroVault /\ itemOverview # ZeroItemOverview
                 /\ s # "" /\ k = 0)
              => result = Failure(ErrSectionNotFound)

(* C3 witness: FindSecret failed with ErrSectionNotFound although a field *)
(* with the requested title exists, and a section differs from the title  *)
(* only in case.                                                          *)
C3_Witness ==
    /\ op = "FindSecret" /\ ItemLoaded
    /\ args.section = "rotation"
    /\ \E i \in 1..Len(content.Sections) : content.Sections[i].Title = "Rotation"
    /\ \E i \in 1..Len(content.Fields) : content.Fields[i].Title = args.fieldName
    /\ result = Failure(ErrSectionNotFound)

(* The empty title resolved to the empty identifier of an item that has   *)
(* sections.                                                              *)
C3_WitnessEmpty ==
    /\ pc = "scanFields" /\ args.section = "" /\ sectionID = ""
    /\ Len(item.Sections) = 2

----------------------------------------------------------------------------
RotationTitles == {"expires-on", "created-on", "rotationFunction"}

(* The fields of an item that carry a reference to section id and are     *)
(* titled t, and the values they hold.                                    *)
InSection(it, id, t) ==
    {i \in 1..Len(it.Fields) :
        it.Fields[i].hasSection /\ it.Fields[i].SectionID = id /\ it.Fields[i].Title = t}
ValuesIn(it, id, t) == {it.Fields[i].Value : i \in InSection(it, id, t)}

(* FindSecretRotationSpecs was called with the title of a section of the  *)
(* item and the item was loaded.                                          *)
RotationOfNamedSection ==
    /\ op = "FindSecretRotationSpecs" /\ ItemLoaded
    /\ args.section # ""
    /\ FirstWithTitle(content.Sections, args.section) # 0

(* C4: when the named section holds fields titled expires-on, created-on  *)
(* and rotationFunction, all with non-empty values,                       *)
(* FindSecretRotationSpecs returns the serialized record of three values  *)
(* taken from fields of that section; when one of the three titles is     *)
(* absent from the section it fails with ErrRotationSpecNotFound.         *)
C4_RotationRecord ==
    RotationOfNamedSection =>
        LET id == content.Sections[FirstWithTitle(content.Sections, args.section)].ID
            V(t) == ValuesIn(content, id, t)
        IN  /\ (\A t \in RotationTitles : V(t) # {} /\ "" \notin V(t)) =>
                  \E e \in V("expires-on"), c \in V("created-on"),
                     f \in V("rotationFunction") :
                        result = Secret("rotationSpecs",
                                        Marshal([ExpiresOn |-> e, CreatedOn |-> c,
                                                 RotationFunction |-> f]))
            /\ (\E t \in RotationTitles : V(t) = {}) =>
                  result = Failure(ErrRotationSpecNotFound)

(* C4 holds of every item all of whose fields carry a section reference.  *)
C4_WhenEveryFieldIsSectioned ==
    (\A i \in 1..Len(content.Fields) : content.Fields[i].hasSection)
        => C4_RotationRecord

(* C5: FindSecretRotationSpecs called with the empty section name fails   *)
(* with ErrSectionNotFound, as with a title that matches no section.      *)
C5_EmptySectionNameFails ==
    (op = "FindSecretRotationSpecs" /\ ItemLoaded /\ args.section = "")
        => result = Failure(ErrSectionNotFound)

(* C6: a failure of list-vaults, of list-items, of an iterator step or of *)
(* get-item is returned to the caller unchanged.                          *)
C6_ProviderFailureReturned ==
    (Done /\ failedAt \in {"listVaults", "vaultNext", "listItems", "itemNext", "getItem"})
        => result = Failure(ProviderError)

(* The same for every provider call but get-item.                         *)
C6_ListFailureReturned ==
    (Done /\ failedAt \in {"listVaults", "vaultNext", "listItems", "itemNext"})
        => result = Failure(ProviderError)

(* C7: when authentication fails the operation returns the AuthError to   *)
(* its caller, and makes no vault or item call.                           *)
C7_AuthErrorReturned ==
    (Done /\ failedAt = "auth") =>
        /\ result = Failure(AuthError)
        /\ iter = NoIter /\ vault = ZeroVault /\ createCalls = <<>>

(* C8: PutSecret issues one create-item call exactly when the vault was   *)
(* resolved and the item lookup ended with ErrItemNotFound; the request   *)
(* is for an empty item with the given title in the resolved vault; no    *)
(* other operation creates anything.                                      *)
C8_CreateOnlyWhenItemMissing ==
    LET n == FirstWithTitle(items[vault.ID], args.itemName)
    IN  /\ createCalls # <<>> =>
              /\ op = "PutSecret" /\ Len(createCalls) = 1
              /\ VaultResolved /\ n = 0
              /\ createCalls[1] =
                    [VaultID |-> vault.ID, Title |-> args.itemName, Fields |-> <<>>]
        /\ (Done /\ op = "PutSecret" /\ VaultResolved /\ ~ItemLookupFailed /\ n = 0)
              => Len(createCalls) = 1

(* What C8 says of when the call is made and of the item it asks for,     *)
(* without the vault the request names.                                   *)
C8_CreateTiming ==
    LET n == FirstWithTitle(items[vault.ID], args.itemName)
    IN  /\ createCalls # <<>> =>
              /\ op = "PutSecret" /\ Len(createCalls) = 1
              /\ VaultResolved /\ n = 0
              /\ createCalls[1].Title = args.itemName
              /\ createCalls[1].Fields = <<>>
        /\ (Done /\ op = "PutSecret" /\ VaultResolved /\ ~ItemLookupFailed /\ n = 0)
              => Len(createCalls) = 1

----------------------------------------------------------------------------
Iterating == pc \in {"vaultNext", "itemNext"}
C10_CancelEndsIteration == (cancelled /\ Iterating) ~> ~Iterating

----------------------------------------------------------------------------
(* The rotation scan, stated over the item: the value the last field of   *)
(* section id titled t among the first p fields holds ("" when there is   *)
(* none), the record after p fields, and the first field after which the  *)
(* record is complete (one past the end when there is none).              *)
LastValue(it, id, t, p) ==
    LET S == {i \in InSection(it, id, t) : i <= p}
    IN  IF S = {} THEN "" ELSE it.Fields[CHOOSE i \in S : \A j \in S : j <= i].Value
RecordAfter(it, id, p) ==
    [ExpiresOn |-> LastValue(it, id, "expires-on", p),
     CreatedOn |-> LastValue(it, id, "created-on", p),
     RotationFunction |-> LastValue(it, id, "rotationFunction", p)]
Complete(r) == r.ExpiresOn # "" /\ r.CreatedOn # "" /\ r.RotationFunction # ""
StopPoint(it, id) ==
    LET S == {p \in 1..Len(it.Fields) : Complete(RecordAfter(it, id, p))}
    IN  IF S = {} THEN Len(it.Fields) + 1 ELSE Least(S)
Unreferenced(it) == {i \in 1..Len(it.Fields) : ~it.Fields[i].hasSection}
Examined(it, id) == {i \in 1..Len(it.Fields) : i <= StopPoint(it, id)}
RotationExpected(it, id) ==
    IF StopPoint(it, id) <= Len(it.Fields)
    THEN Secret("rotationSpecs", Marshal(RecordAfter(it, id, StopPoint(it, id))))
    ELSE Failure(ErrRotationSpecNotFound)

(* FindSecretRotationSpecs loaded the item and resolved the section name  *)
(* (the empty name resolves to the empty identifier): the scan ran.       *)
RotationScanned ==
    /\ op = "FindSecretRotationSpecs" /\ ItemLoaded
    /\ (args.section = "" \/ FirstWithTitle(content.Sections, args.section) # 0)
ScannedSection ==
    IF args.section = "" THEN ""
    ELSE content.Sections[FirstWithTitle(content.Sections, args.section)].ID

(* C11: the rotation scan aborts with a fault exactly when a field with   *)
(* no section reference lies no later than the field at which the record  *)
(* becomes complete; such a field after that point is never examined and  *)
(* changes nothing.  FindSecret never faults on a field.                  *)
C11_UnreferencedFieldFaults ==
    /\ RotationScanned =>
          LET examined ==
                  {i \in Unreferenced(content) : i <= StopPoint(content, ScannedSection)}
          IN  IF examined # {}
              THEN result = Panic(NilDereference)
              ELSE result = RotationExpected(content, ScannedSection)
    /\ (op = "FindSecret" /\ Done /\ failedAt \notin {"credential", "auth"})
          => result.kind # "panic"

(* C11 witness: the scan set one attribute from the section and then      *)
(* faulted on a field without section reference.                          *)
C11_Witness ==
    /\ RotationScanned /\ args.section = "rotation"
    /\ Len(content.Fields) >= 2
    /\ content.Fields[1].hasSection /\ content.Fields[1].SectionID = "s1"
    /\ ~content.Fields[2].hasSection
    /\ rotationInfo.ExpiresOn # ""
    /\ result = Panic(NilDereference)

(* A field without section reference after the point where the record is  *)
(* complete: the record is returned.                                      *)
C11_WitnessAfterStop ==
    /\ RotationScanned
    /\ Len(content.Fields) = 4 /\ ~content.Fields[4].hasSection
    /\ StopPoint(content, ScannedSection) = 3
    /\ result.kind = "secret"

(* FindSecret returned a value from an item on which the rotation scan    *)
(* faults.                                                                *)
C11_WitnessFindSecret ==
    /\ op = "FindSecret" /\ ItemLoaded /\ args.section = "rotation"
    /\ Len(content.Fields) >= 2 /\ ~content.Fields[1].hasSection
    /\ result.kind = "secret"

----------------------------------------------------------------------------
(* C12: the rotation scan is last-write-wins up to the point where it     *)
(* stops: each attribute of the record is the value of the last field of  *)
(* the section with its title among the fields examined; the scan stops   *)
(* at the first field after which all three attributes are non-empty; an  *)
(* empty value counts as not observed, so that a record with an empty     *)
(* attribute at the end of the fields fails with ErrRotationSpecNotFound. *)
C12_LastWriteWins ==
    (RotationScanned
        /\ Unreferenced(content) \cap Examined(content, ScannedSection) = {}) =>
        LET id == ScannedSection
            stop == StopPoint(content, id)
            n == Len(content.Fields)
        IN  /\ rotationInfo = RecordAfter(content, id, IF stop <= n THEN stop ELSE n)
            /\ stop <= n => result = Secret("rotationSpecs", Marshal(rotationInfo))
            /\ stop > n =>
                  /\ ~Complete(rotationInfo)
                  /\ result = Failure(ErrRotationSpecNotFound)

(* C12 witness: the section holds two expires-on fields with different    *)
(* values before the point where the scan stops, and the record returned  *)
(* holds the value of the second.                                         *)
C12_Witness ==
    /\ RotationScanned /\ args.section = "rotation"
    /\ Len(content.Fields) = 4 /\ StopPoint(content, "s1") = 4
    /\ InSection(content, "s1", "expires-on") = {1, 2}
    /\ content.Fields[1].Value # content.Fields[2].Value
    /\ result.kind = "secret"
    /\ rotationInfo.ExpiresOn = content.Fields[2].Value

(* The scan stopped at the third field: a later expires-on field of the   *)
(* section is not in the record.                                          *)
C12_WitnessShortCircuit ==
    /\ RotationScanned /\ args.section = "rotation"
    /\ Len(content.Fields) = 4 /\ StopPoint(content, "s1") = 3
    /\ InSection(content, "s1", "expires-on") = {1, 4}
    /\ content.Fields[1].Value # content.Fields[4].Value
    /\ result.kind = "secret"
    /\ rotationInfo.ExpiresOn = content.Fields[1].Value

(* The only expires-on field of the section has the empty value.          *)
C12_WitnessEmptyValue ==
    /\ RotationScanned /\ args.section = "rotation"
    /\ Len(content.Fields) = 3
    /\ ValuesIn(content, "s1", "expires-on") = {""}
    /\ ValuesIn(content, "s1", "created-on") # {}
    /\ ValuesIn(content, "s1", "rotationFunction") # {}
    /\ result = Failure(ErrRotationSpecNotFound)

====
